---------------------------- MODULE Spec2Model ----------------------------
(***************************************************************************)
(* A model of the influxdb database/sql driver:                            *)
(*   - the UDP chunker udpPayload and the send loop udpWrite,              *)
(*   - httpClient.Query's handling of the status and the JSON body,        *)
(*   - the connection's transaction slot (Begin / Commit / Rollback), the  *)
(*     batch of points and the statement router (newStmt / Exec).          *)
(* Four specifications share the module: SpecUDP, SpecHTTP, Spec (the      *)
(* transactions of a connection) and SpecExec (Spec with the statements).  *)
(* Each leaves the variables of the others untouched.                      *)
(***************************************************************************)
EXTENDS Integers, Sequences, FiniteSets, TLC

VARIABLES
    \* ---- udpWrite (src/influx_test.go:130-143)
    data,       \* the payload handed to udpWrite
    size,       \* the configured payload size
    head,       \* udpWrite's local head
    tail,       \* udpWrite's local tail (the remainder)
    chunks,     \* history: the non-empty heads udpPayload returned, in order
    datagrams,  \* what conn.Write was given on each successful call, in order
    upc,        \* "loop" | "done"
    uerr,       \* udpWrite's return value: "nil" | "err"
    \* ---- httpClient.Query (src/unnamed/part_001:213-261)
    status,     \* resp.StatusCode
    body,       \* resp.Body, as a sequence of JSON tokens
    doErr,      \* whether c.httpClient.Do failed
    qret,       \* Query's return value [response, err]
    qpc,        \* "call" | "done"
    \* ---- the connection (src/influx.go)
    conn,       \* the conn struct: database, precision, tx (0 is nil)
    txs,        \* the tx objects allocated so far: txs[h].bp is the batch
    writes,     \* the requests Client.Write has received, in order
    queries,    \* the requests Client.Query has received, in order
    ret,        \* what the last driver call returned
    nextPoint,  \* the next fresh *Point
    ended,      \* history: handles whose Commit or Rollback has been called
    added,      \* history: per handle, the points added since Begin/Rollback
    discarded   \* history: ids of the points a Rollback threw away

udpVars  == <<data, size, head, tail, chunks, datagrams, upc, uerr>>
httpVars == <<status, body, doErr, qret, qpc>>
connVars == <<conn, txs, writes, queries, ret, nextPoint, ended, added, discarded>>
vars     == <<udpVars, httpVars, connVars>>

NL == "\n"

RECURSIVE Concat(_)
\* The concatenation, in order, of a sequence of byte sequences.
Concat(ss) == IF ss = <<>> THEN <<>> ELSE Head(ss) \o Concat(Tail(ss))

RECURSIVE SeqsUpTo(_, _)
\* All sequences over S of length at most n.
SeqsUpTo(S, n) ==
    IF n = 0 THEN {<<>>}
    ELSE LET shorter == SeqsUpTo(S, n - 1)
         IN shorter \cup {Append(s, x) : s \in {t \in shorter : Len(t) = n - 1}, x \in S}

(***************************************************************************)
(*                         The UDP chunker                                 *)
(***************************************************************************)
MaxLen  == 6
MaxSize == 3

Bytes1   == {"a", NL}
Payloads == SeqsUpTo(Bytes1, MaxLen)
Sizes    == 0..MaxSize

\* bytes.IndexByte(s, c): the 0-based index of the first c in s, -1 if none.
IndexByte(s, c) ==
    IF \E i \in 1..Len(s) : s[i] = c
    THEN (CHOOSE i \in 1..Len(s) : s[i] = c /\ \A j \in 1..(i - 1) : s[j] # c) - 1
    ELSE -1

RECURSIVE udpPayloadLoopSkipNL(_, _, _)
\* The loop with the remainder taken past the line feed (tail[pos+1:]).
udpPayloadLoopSkipNL(h, t, sz) ==
    IF Len(h) < sz
    THEN LET pos == IndexByte(t, NL)
         IN IF pos > 0
            THEN udpPayloadLoopSkipNL(h \o SubSeq(t, 1, pos), SubSeq(t, pos + 2, Len(t)), sz)
            ELSE [head |-> h, tail |-> t]
    ELSE [head |-> h, tail |-> t]

RECURSIVE udpPayloadLoop(_, _, _)
\* The for loop of udpPayload.  h = <<>> stands for the nil head: every append
\* adds pos > 0 bytes, so h is empty exactly when nothing was appended.
udpPayloadLoop(h, t, sz) ==
    IF Len(h) < sz
    THEN LET pos == IndexByte(t, NL)
         IN IF pos > 0
            THEN udpPayloadLoop(h \o SubSeq(t, 1, pos), SubSeq(t, pos + 1, Len(t)), sz)
            ELSE [head |-> h, tail |-> t]
    ELSE [head |-> h, tail |-> t]

udpPayload(d, sz) ==
    LET r == udpPayloadLoop(<<>>, d, sz)
    IN IF r.head = <<>> THEN [head |-> d, tail |-> <<>>] ELSE r

InitUDPIdle ==
    /\ data = <<>> /\ size = 0 /\ head = <<>> /\ tail = <<>>
    /\ chunks = <<>> /\ datagrams = <<>> /\ upc = "done" /\ uerr = "nil"

\* udpWrite up to its loop: head, tail := nil, data.
udpWriteEnter ==
    /\ data \in Payloads
    /\ size \in Sizes
    /\ head = <<>>
    /\ tail = data
    /\ chunks = <<>>
    /\ datagrams = <<>>
    /\ upc = "loop"
    /\ uerr = "nil"

\* One iteration that ends the loop: the head is empty, udpWrite returns nil.
udpWriteBreak ==
    /\ upc = "loop"
    /\ LET r == udpPayload(tail, size)
       IN /\ Len(r.head) = 0
          /\ head' = r.head
          /\ tail' = r.tail
    /\ upc' = "done"
    /\ uerr' = "nil"
    /\ UNCHANGED <<data, size, chunks, datagrams, httpVars, connVars>>

\* One iteration whose conn.Write(data) succeeds.
udpWriteSend ==
    /\ upc = "loop"
    /\ LET r == udpPayload(tail, size)
       IN /\ Len(r.head) # 0
          /\ head' = r.head
          /\ tail' = r.tail
          /\ chunks' = Append(chunks, r.head)
    /\ datagrams' = Append(datagrams, data)
    /\ UNCHANGED <<data, size, upc, uerr, httpVars, connVars>>

\* One iteration whose conn.Write(data) fails: udpWrite returns the error.
udpWriteFail ==
    /\ upc = "loop"
    /\ LET r == udpPayload(tail, size)
       IN /\ Len(r.head) # 0
          /\ head' = r.head
          /\ tail' = r.tail
          /\ chunks' = Append(chunks, r.head)
    /\ upc' = "done"
    /\ uerr' = "err"
    /\ UNCHANGED <<data, size, datagrams, httpVars, connVars>>

(***************************************************************************)
(*                         httpClient.Query                                *)
(***************************************************************************)
MaxBodyLen == 3
StatusOK   == 200

\* The body as tokens: white space, the braces of the top-level object, one of
\* three members ("E": "error":"msg"; "R": "results":[{}]; "F": "results":
\* [{"error":"msg"}]) and "<", a byte no JSON value starts with.
BodyTokens == {" ", "{", "}", "E", "R", "F", "<"}
Members    == {"E", "R", "F"}
Bodies     == SeqsUpTo(BodyTokens, MaxBodyLen)
Statuses   == {StatusOK, 204, 500}

EmptyResponse == [Err |-> "", Results |-> <<>>]

RECURSIVE SkipSpace(_)
SkipSpace(s) == IF s # <<>> /\ Head(s) = " " THEN SkipSpace(Tail(s)) ELSE s

MemberOf(r, m) ==
    CASE m = "E" -> [r EXCEPT !.Err = "msg"]
      [] m = "R" -> [r EXCEPT !.Results = <<[Err |-> ""]>>]
      [] m = "F" -> [r EXCEPT !.Results = <<[Err |-> "msg"]>>]

\* json.Decoder.Decode(&response) on the body: the first JSON value is read
\* and what follows it is left alone.  err is "" (nil), "EOF" (no value at
\* all), "unexpected EOF" (the value is cut short) or "syntax".
Decode(b) ==
    LET s0 == SkipSpace(b)
    IN IF s0 = <<>> THEN [err |-> "EOF", response |-> EmptyResponse]
       ELSE IF Head(s0) # "{" THEN [err |-> "syntax", response |-> EmptyResponse]
       ELSE LET s1 == SkipSpace(Tail(s0))
            IN IF s1 = <<>> THEN [err |-> "unexpected EOF", response |-> EmptyResponse]
               ELSE IF Head(s1) = "}" THEN [err |-> "", response |-> EmptyResponse]
               ELSE IF Head(s1) \notin Members
                    THEN [err |-> "syntax", response |-> EmptyResponse]
               ELSE LET s2 == SkipSpace(Tail(s1))
                        r  == MemberOf(EmptyResponse, Head(s1))
                    IN IF s2 = <<>> THEN [err |-> "unexpected EOF", response |-> r]
                       ELSE IF Head(s2) = "}" THEN [err |-> "", response |-> r]
                       ELSE [err |-> "syntax", response |-> r]

\* Response.Error: the first error of the response, "" for nil.
ResponseError(r) ==
    IF r.Err # "" THEN r.Err
    ELSE IF \E i \in 1..Len(r.Results) : r.Results[i].Err # ""
         THEN r.Results[CHOOSE i \in 1..Len(r.Results) :
                          /\ r.Results[i].Err # ""
                          /\ \A j \in 1..(i - 1) : r.Results[j].Err = ""].Err
         ELSE ""

NoResponse == [Err |-> "nil", Results |-> <<>>]

\* Query from the Decode call on (lines 241-260): [response, err].
QueryResult(st, b) ==
    LET d       == Decode(b)
        decErr  == IF d.err # "" /\ d.err = "EOF" /\ st # StatusOK THEN "" ELSE d.err
    IN IF decErr # ""
       THEN [response |-> NoResponse, err |-> "unable to decode json"]
       ELSE IF st # StatusOK /\ ResponseError(d.response) = ""
            THEN [response |-> d.response, err |-> "received status code"]
            ELSE [response |-> d.response, err |-> ""]

InitHTTPIdle ==
    /\ status = StatusOK /\ body = <<>> /\ doErr = FALSE
    /\ qret = [response |-> NoResponse, err |-> ""] /\ qpc = "done"

\* The server's answer to the request Query sends.
httpClientQueryEnter ==
    /\ status \in Statuses
    /\ body \in Bodies
    /\ doErr \in BOOLEAN
    /\ qret = [response |-> NoResponse, err |-> ""]
    /\ qpc = "call"

\* c.httpClient.Do fails: Query returns its error.
httpClientQueryDoFails ==
    /\ qpc = "call"
    /\ doErr
    /\ qret' = [response |-> NoResponse, err |-> "transport"]
    /\ qpc' = "done"
    /\ UNCHANGED <<status, body, doErr, udpVars, connVars>>

\* c.httpClient.Do answers: Query decodes the body and looks at the status.
httpClientQuery ==
    /\ qpc = "call"
    /\ ~doErr
    /\ qret' = QueryResult(status, body)
    /\ qpc' = "done"
    /\ UNCHANGED <<status, body, doErr, udpVars, connVars>>

(***************************************************************************)
(*          The connection: transactions, batches, statements              *)
(***************************************************************************)
MaxTx      == 3
MaxPoints  == 2
MaxCommits == 1
MaxExecs   == 1

Precisions == {"ns", "ms"}
Database   == <<"m">>      \* the connection's database (the URI's path)
Times      == {1500000}    \* time stamps of the points, in nanoseconds

\* A *Point: its identity and its time.
PointKey(id) == "p" \o ToString(id)

\* models.Point.PrecisionString: the key, then the time in the precision's unit.
PrecisionString(p, precision) ==
    LET mult == CASE precision = "us" -> 1000
                  [] precision = "ms" -> 1000000
                  [] precision = "s"  -> 1000000000
                  [] OTHER            -> 1
    IN <<PointKey(p.id), ToString(p.time \div mult)>>

RECURSIVE BytesOf(_, _)
\* BatchPoints.Bytes on the points ps: each point's line, then a line feed.
BytesOf(ps, precision) ==
    IF ps = <<>> THEN <<>>
    ELSE PrecisionString(Head(ps), precision) \o <<NL>> \o BytesOf(Tail(ps), precision)

\* BatchPoints.AddPoints.
AddPointsTo(points, ps) == points \o ps

\* ---- the statement router
InsertWords == {"INSERT", "insert"}
IntoWords   == {"INTO", "into"}
Spaces      == {" ", NL}
IdentChars  == {"d", "-", "_", "9"} \cup InsertWords \cup IntoWords

RECURSIVE RunLen(_, _, _)
\* The length of the longest run of tokens of S in q from position i on.
RunLen(q, i, S) == IF i <= Len(q) /\ q[i] \in S THEN 1 + RunLen(q, i + 1, S) ELSE 0

\* rxInsert.FindStringSubmatch(query) for
\*   ^(?i:INSERT\s+INTO)\s+([a-zA-Z0-9_\-]+)\.(.*)
\* <<>> when there is no match, else <<whole match, identifier, rest>>.  A
\* key word is one token; "." matches any byte but a line feed.
rxInsert(q) ==
    LET s1 == RunLen(q, 2, Spaces)
        i1 == 2 + s1                        \* where INTO must stand
        s2 == RunLen(q, i1 + 1, Spaces)
        i2 == i1 + 1 + s2                   \* where the identifier starts
        n  == RunLen(q, i2, IdentChars)
        i3 == i2 + n                        \* where the dot must stand
        r  == RunLen(q, i3 + 1, {c \in {q[k] : k \in 1..Len(q)} : c # NL})
    IN IF /\ Len(q) >= 1 /\ q[1] \in InsertWords
          /\ s1 >= 1
          /\ i1 <= Len(q) /\ q[i1] \in IntoWords
          /\ s2 >= 1
          /\ n >= 1
          /\ i3 <= Len(q) /\ q[i3] = "."
       THEN <<SubSeq(q, 1, i3 + r), SubSeq(q, i2, i3 - 1), SubSeq(q, i3 + 1, i3 + r)>>
       ELSE <<>>

\* newStmt: an insertStmt when the pattern matches, a stmt otherwise.
newStmt(query) ==
    LET m == rxInsert(query)
    IN IF Len(m) # 3
       THEN [kind |-> "stmt", db |-> <<>>, query |-> query]
       ELSE [kind |-> "insertStmt", db |-> m[2], query |-> m[3]]

\* NewQuery.
NewQuery(command, database, precision) ==
    [Command |-> command, Database |-> database, Precision |-> precision]

Statements ==
    { <<"INSERT", " ", "INTO", " ", "d", ".", "c">>,
      <<"insert", NL, "into", " ", " ", "d", "-", ".", "c", ".", "c">>,
      <<"INSERT", " ", "INTO", " ", "d", ".", "c", NL, "c">>,
      <<"INSERT", " ", "INTO", " ", "d", ".">>,
      <<"INSERT", "INTO", " ", "d", ".", "c">>,
      <<"INSERT", " ", "INTO", " ", "d", " ", ".", "c">>,
      <<" ", "INSERT", " ", "INTO", " ", "d", ".", "c">>,
      <<"SELECT", " ", "c">> }

NoQuery == <<>>
Return(op, h, err, rows, query) ==
    [op |-> op, tx |-> h, err |-> err, rows |-> rows, query |-> query]

Handles == 1..Len(txs)

\* A call of Client.Write as the client sees it, with the error it answered
\* and the driver call that made it.
WriteCall(by, database, lineData, err) ==
    [by |-> by, Database |-> database, lineData |-> lineData, err |-> err]

RECURSIVE CountBy(_, _)
CountBy(ws, by) ==
    IF ws = <<>> THEN 0
    ELSE (IF Head(ws).by = by THEN 1 ELSE 0) + CountBy(Tail(ws), by)

Commits == CountBy(writes, "Commit")
Execs   == CountBy(writes, "Exec") + Len(queries)

\* The state Open returns: no transaction, nothing sent.
InitConn ==
    /\ conn \in [database : {Database}, precision : Precisions, tx : {0}]
    /\ txs = <<>>
    /\ writes = <<>>
    /\ queries = <<>>
    /\ ret = Return("Open", 0, "", 0, NoQuery)
    /\ nextPoint = 1
    /\ ended = {}
    /\ added = <<>>
    /\ discarded = {}

\* newTx: a tx with a fresh, empty batch.
newTx == [bp |-> <<>>]

\* conn.Begin with the slot taken over whatever it holds.
connBeginNoCheck ==
    /\ Len(txs) < MaxTx
    /\ txs' = Append(txs, newTx)
    /\ added' = Append(added, <<>>)
    /\ conn' = [conn EXCEPT !.tx = Len(txs) + 1]
    /\ ret' = Return("Begin", Len(txs) + 1, "", 0, NoQuery)
    /\ UNCHANGED <<writes, queries, nextPoint, ended, discarded, udpVars, httpVars>>

\* conn.Begin.
connBegin ==
    IF conn.tx # 0
    THEN /\ ret' = Return("Begin", 0, "a Tx already begins", 0, NoQuery)
         /\ UNCHANGED <<conn, txs, writes, queries, nextPoint, ended, added, discarded, udpVars, httpVars>>
    ELSE /\ Len(txs) < MaxTx
         /\ txs' = Append(txs, newTx)
         /\ added' = Append(added, <<>>)
         /\ conn' = [conn EXCEPT !.tx = Len(txs) + 1]
         /\ ret' = Return("Begin", Len(txs) + 1, "", 0, NoQuery)
         /\ UNCHANGED <<writes, queries, nextPoint, ended, discarded, udpVars, httpVars>>

\* t.bp.AddPoints(ps) on the transaction h, with n fresh points.
bpAddPoints(h, n) ==
    /\ nextPoint + n - 1 <= MaxPoints
    /\ \E tm \in Times :
         LET ps == [i \in 1..n |-> [id |-> nextPoint + i - 1, time |-> tm]]
         IN /\ txs' = [txs EXCEPT ![h].bp = AddPointsTo(@, ps)]
            /\ added' = [added EXCEPT ![h] = @ \o ps]
    /\ nextPoint' = nextPoint + n
    /\ ret' = Return("AddPoints", h, "", 0, NoQuery)
    /\ UNCHANGED <<conn, writes, queries, ended, discarded, udpVars, httpVars>>

\* tx.Commit that returns a write error before it clears the slot.
txCommitKeepOnError(h) ==
    /\ Commits < MaxCommits
    /\ \E err \in {"", "write failed"} :
         /\ writes' = Append(writes, WriteCall("Commit", conn.database,
                                               BytesOf(txs[h].bp, "ns"), err))
         /\ conn' = IF err = "" THEN [conn EXCEPT !.tx = 0] ELSE conn
         /\ ret' = Return("Commit", h, err, 0, NoQuery)
    /\ ended' = ended \cup {h}
    /\ UNCHANGED <<txs, queries, nextPoint, added, discarded, udpVars, httpVars>>

\* tx.Commit on the handle h: one write, then the slot is cleared.
txCommit(h) ==
    /\ Commits < MaxCommits
    /\ \E err \in {"", "write failed"} :
         /\ writes' = Append(writes, WriteCall("Commit", conn.database,
                                               BytesOf(txs[h].bp, "ns"), err))
         /\ ret' = Return("Commit", h, err, 0, NoQuery)
    /\ conn' = [conn EXCEPT !.tx = 0]
    /\ ended' = ended \cup {h}
    /\ UNCHANGED <<txs, queries, nextPoint, added, discarded, udpVars, httpVars>>

\* tx.Rollback that sends the batch before it drops it.
txRollbackFlush(h) ==
    /\ writes' = Append(writes, WriteCall("Rollback", conn.database,
                                          BytesOf(txs[h].bp, "ns"), ""))
    /\ txs' = [txs EXCEPT ![h].bp = <<>>]
    /\ conn' = [conn EXCEPT !.tx = 0]
    /\ ret' = Return("Rollback", h, "", 0, NoQuery)
    /\ ended' = ended \cup {h}
    /\ added' = [added EXCEPT ![h] = <<>>]
    /\ discarded' = discarded \cup {txs[h].bp[i].id : i \in 1..Len(txs[h].bp)}
    /\ UNCHANGED <<queries, nextPoint, udpVars, httpVars>>

\* tx.Rollback on the handle h: a fresh batch, the slot cleared, no write.
txRollback(h) ==
    /\ txs' = [txs EXCEPT ![h].bp = <<>>]
    /\ conn' = [conn EXCEPT !.tx = 0]
    /\ ret' = Return("Rollback", h, "", 0, NoQuery)
    /\ ended' = ended \cup {h}
    /\ added' = [added EXCEPT ![h] = <<>>]
    /\ discarded' = discarded \cup {txs[h].bp[i].id : i \in 1..Len(txs[h].bp)}
    /\ UNCHANGED <<writes, queries, nextPoint, udpVars, httpVars>>

\* insertStmt.Exec: the body is written to the statement's database.
insertStmtExec(s, q) ==
    /\ Execs < MaxExecs
    /\ \E err \in {"", "write failed"} :
         /\ writes' = Append(writes, WriteCall("Exec", s.db, s.query, err))
         /\ ret' = Return("Exec", 0, err, 0, q)
    /\ UNCHANGED <<conn, txs, queries, nextPoint, ended, added, discarded, udpVars, httpVars>>

\* stmt.Exec: the text is sent as a query; the answer is the server's.
stmtExec(s, q) ==
    /\ Execs < MaxExecs
    /\ queries' = Append(queries, NewQuery(s.query, conn.database, conn.precision))
    /\ \E answer \in {"query failed", "msg", "ok"} :
         ret' = CASE answer = "query failed" -> Return("Exec", 0, answer, 0, q)
                  [] answer = "msg"          -> Return("Exec", 0, answer, 0, q)
                  [] answer = "ok"           -> Return("Exec", 0, "", 1, q)
    /\ UNCHANGED <<conn, txs, writes, nextPoint, ended, added, discarded, udpVars, httpVars>>

\* conn.Prepare(query) followed by Exec on the statement it returns.
Exec(q) ==
    LET s == newStmt(q)
    IN IF s.kind = "insertStmt" THEN insertStmtExec(s, q) ELSE stmtExec(s, q)

(***************************************************************************)
(*                        The specifications                               *)
(***************************************************************************)
Init == InitConn /\ InitUDPIdle /\ InitHTTPIdle

Next ==
    \/ connBegin
    \/ \E h \in Handles, n \in 1..2 : bpAddPoints(h, n)
    \/ \E h \in Handles : txCommit(h)
    \/ \E h \in Handles : txRollback(h)

\* The transactions of one connection.
Spec == Init /\ [][Next]_vars

NextExec ==
    \/ Next
    \/ \E q \in Statements : Exec(q)

\* The transactions and the statements of one connection.
SpecExec == Init /\ [][NextExec]_vars

InitConnIdle ==
    /\ conn = [database |-> Database, precision |-> "ns", tx |-> 0]
    /\ txs = <<>> /\ writes = <<>> /\ queries = <<>>
    /\ ret = Return("Open", 0, "", 0, NoQuery)
    /\ nextPoint = 1 /\ ended = {} /\ added = <<>> /\ discarded = {}

InitUDP == udpWriteEnter /\ InitHTTPIdle /\ InitConnIdle

NextUDP ==
    \/ udpWriteBreak
    \/ udpWriteSend
    \/ udpWriteFail

SpecUDP == InitUDP /\ [][NextUDP]_vars

InitHTTP == httpClientQueryEnter /\ InitUDPIdle /\ InitConnIdle

NextHTTP ==
    \/ httpClientQueryDoFails
    \/ httpClientQuery

SpecHTTP == InitHTTP /\ [][NextHTTP]_vars

(***************************************************************************)
(*                            The claims                                   *)
(***************************************************************************)
Range(f) == {f[i] : i \in DOMAIN f}
Last(sq) == sq[Len(sq)]

\* A chunk that is one line: no line feed before its last byte.
IsOneLine(c) == \A k \in 1..(Len(c) - 1) : c[k] # NL

\* Every line of d is shorter than sz: no sz bytes in a row without a line feed.
LinesShorterThan(d, sz) ==
    \A i \in 1..(Len(d) - sz + 1) : \E k \in i..(i + sz - 1) : d[k] = NL

\* C1: with maxSize > 0, every chunk that the repeated udpPayload calls produce
\* is at most maxSize bytes long, unless it is exactly one line that is itself
\* longer than maxSize.
C1_ChunksWithinSize ==
    size > 0 =>
        \A i \in 1..Len(chunks) :
            \/ Len(chunks[i]) <= size
            \/ IsOneLine(chunks[i]) /\ Len(chunks[i]) > size

\* C2: every chunk boundary falls right after a line feed: a chunk that is
\* followed by more data ends with a line feed, and no chunk starts with the
\* line feed that ends the last line of the chunk before it.
C2_BoundariesAfterLineFeed ==
    \A i \in 1..Len(chunks) :
        /\ (i < Len(chunks) \/ tail # <<>>) => Last(chunks[i]) = NL
        /\ (i > 1 /\ chunks[i][1] = NL) => Last(chunks[i - 1]) = NL

\* C3: the chunks produced so far followed by the remainder are the payload
\* (head ++ tail = data after every udpPayload call), and once the remainder
\* is empty the chunks, concatenated in order, are exactly the payload.
C3_ChunksReassemble ==
    /\ Concat(chunks) \o tail = data
    /\ (upc = "done" /\ uerr = "nil") => (tail = <<>> /\ Concat(chunks) = data)

\* A payload of two or more lines, each shorter than the size, chunked to the
\* end into two or more chunks.
C3_Witness ==
    /\ upc = "done" /\ uerr = "nil"
    /\ size > 0 /\ LinesShorterThan(data, size)
    /\ Cardinality({k \in 1..Len(data) : data[k] = NL}) >= 2
    /\ Len(chunks) >= 2

\* C9: udpWrite writes the i-th chunk as the i-th datagram; when no write
\* fails it writes every chunk once and the datagrams, concatenated, are the
\* payload; when a write fails it returns at once.
C9_DatagramsAreChunks ==
    /\ \A i \in 1..Len(datagrams) : datagrams[i] = chunks[i]
    /\ (upc = "done" /\ uerr = "nil") =>
           (Len(datagrams) = Len(chunks) /\ Concat(datagrams) = data)
    /\ uerr = "err" => (upc = "done" /\ Len(datagrams) = Len(chunks) - 1)

\* C7: a response whose status is not 200 and whose body does not decode
\* makes Query return the error derived from the status, never a decode error.
C7_StatusErrorNotDecodeError ==
    (qpc = "done" /\ ~doErr /\ status # StatusOK /\ Decode(body).err # "")
        => qret.err = "received status code"

\* The part of C7 the code keeps: an empty (or all white space) body with a
\* status other than 200 yields the status error.
EmptyBodyYieldsStatusError ==
    (qpc = "done" /\ ~doErr /\ status # StatusOK /\ Decode(body).err = "EOF")
        => qret.err = "received status code"

\* The transactions Begin has returned whose own Commit or Rollback has not
\* been called yet.
Live == {h \in Handles : h \notin ended}

\* C4: at most one transaction of the connection is live, whatever handles
\* Commit and Rollback are called on.
C4_AtMostOneLive == Cardinality(Live) <= 1

\* C5: Begin with the slot occupied returns an error and no transaction, and
\* leaves the slot, the transaction in it and its batch as they were; nothing
\* is sent.
C5_BeginWhileOpenFails ==
    [][(ret'.op = "Begin" /\ conn.tx # 0) =>
           /\ ret'.err # ""
           /\ ret'.tx = 0
           /\ conn' = conn
           /\ txs' = txs
           /\ writes' = writes
           /\ queries' = queries]_vars

\* A refused Begin on a connection whose open transaction holds points.
C5_Witness ==
    /\ ret.op = "Begin" /\ ret.err # "" /\ ret.tx = 0
    /\ conn.tx # 0
    /\ txs[conn.tx].bp # <<>>

\* C6: Rollback sends nothing, as do Begin and the adding of points; Commit
\* sends one write, whose payload is the points added to its transaction since
\* Begin (or since its Rollback), in the order they were added, and holds no
\* point an earlier Rollback discarded.
C6_RollbackDiscardsBatch ==
    [][/\ ret'.op \in {"Rollback", "Begin", "AddPoints"} =>
              (writes' = writes /\ queries' = queries)
       /\ ret'.op = "Commit" =>
              /\ Len(writes') = Len(writes) + 1
              /\ SubSeq(writes', 1, Len(writes)) = writes
              /\ Last(writes').lineData = BytesOf(added[ret'.tx], "ns")
              /\ \A id \in discarded :
                     PointKey(id) \notin Range(Last(writes').lineData)]_vars

\* Begin, points added, Rollback, Begin, points added, Commit: one write.
C6_Witness ==
    /\ ret.op = "Commit" /\ ret.tx = 2
    /\ ended = {1, 2}
    /\ discarded # {}
    /\ added[2] # <<>>
    /\ Len(writes) = 1
    /\ writes[1].lineData = BytesOf(added[2], "ns")

\* C10: Commit of the open transaction sends exactly one write, to the
\* connection's database, with the batch at nanosecond precision, returns
\* that write's error, and leaves the slot empty whether or not the write
\* failed; Begin on an empty slot succeeds with an empty batch.
C10_CommitWritesOnceAndDetaches ==
    [][/\ (ret'.op = "Commit" /\ conn.tx # 0 /\ ret'.tx = conn.tx) =>
              /\ writes' = Append(writes, WriteCall("Commit", conn.database,
                                      BytesOf(txs[conn.tx].bp, "ns"), ret'.err))
              /\ queries' = queries
              /\ conn'.tx = 0
       /\ (ret'.op = "Begin" /\ conn.tx = 0) =>
              /\ ret'.err = ""
              /\ ret'.tx # 0
              /\ conn'.tx = ret'.tx
              /\ txs'[ret'.tx].bp = <<>>]_vars

\* A Begin that succeeds after the Commit of a batch of points failed.
C10_Witness ==
    /\ ret.op = "Begin" /\ ret.err = "" /\ conn.tx = ret.tx
    /\ txs[conn.tx].bp = <<>>
    /\ Len(writes) >= 1
    /\ Last(writes).by = "Commit"
    /\ Last(writes).err # ""
    /\ Last(writes).lineData # <<>>
    /\ Live = {conn.tx}

\* What follows "<identifier>." in a statement the pattern matches.
RestOf(q) ==
    LET m == rxInsert(q) IN SubSeq(q, Len(m[1]) - Len(m[3]) + 1, Len(q))

\* C8: Exec of INSERT INTO <identifier>.<rest> sends one write with database
\* <identifier> and payload <rest>, open transaction or not, and leaves the
\* slot and the batches alone; any other statement goes unchanged to the query
\* path with the connection's database and precision, and sends no write; a
\* Commit carries the batch only.
C8_ExecRoutesStatement ==
    [][/\ ret'.op = "Exec" =>
              LET q == ret'.query
                  m == rxInsert(q)
              IN /\ conn' = conn
                 /\ txs' = txs
                 /\ IF Len(m) = 3
                    THEN /\ Len(writes') = Len(writes) + 1
                         /\ SubSeq(writes', 1, Len(writes)) = writes
                         /\ Last(writes').Database = m[2]
                         /\ Last(writes').lineData = RestOf(q)
                         /\ queries' = queries
                    ELSE /\ writes' = writes
                         /\ queries' = Append(queries,
                                NewQuery(q, conn.database, conn.precision))
       /\ ret'.op = "Commit" =>
              Last(writes').lineData = BytesOf(added[ret'.tx], "ns")]_vars

\* The part of C8 the code keeps: the same, for the statements whose text
\* after "<identifier>." holds no line feed.
ExecRoutesOneLineStatement ==
    [][(ret'.op = "Exec" /\ Len(rxInsert(ret'.query)) = 3
            /\ NL \notin Range(RestOf(ret'.query))) =>
           /\ conn' = conn
           /\ txs' = txs
           /\ queries' = queries
           /\ Len(writes') = Len(writes) + 1
           /\ Last(writes').Database = rxInsert(ret'.query)[2]
           /\ Last(writes').lineData = RestOf(ret'.query)]_vars

=============================================================================
